---- MODULE Spec2Model ----
(***************************************************************************)
(* State-machine model of the guest-side registries of vscode-wasm's Rust  *)
(* API: the generic EventEmitter (rust-api/rust/src/common/mod.rs) behind  *)
(* workspace::on_did_change_text_document, the command table               *)
(* (rust-api/rust/src/commands/mod.rs) and the OnceCell command table of   *)
(* testbeds/component-model-vscode/src/lib.rs.                             *)
(*                                                                         *)
(* Guest code runs on one thread; every operation below is one host- or    *)
(* guest-initiated call that runs to completion, so each is one action.    *)
(* Closures (listeners, disposers) are modelled by what they do when       *)
(* called.  A Rust panic (a trap in the WebAssembly guest) is recorded in  *)
(* `fault`; nothing runs after it.                                         *)
(***************************************************************************)
EXTENDS Integers, Sequences, FiniteSets, TLC

\* ------------------------------------------------------------------ bounds
\* Number of `on` calls explored (next_id stays far below u32::MAX).
MaxSubs == 3
\* Number of times one disposer returned by `on` is invoked.
MaxDisposeCalls == 2

\* Number of `on` calls explored on the vscode-rust-api emitter.
MaxVsSubs == 4

\* Number of register_command calls explored, per command table.
MaxRegs == 3

\* Number of registrations (listeners and commands) an activation makes.
MaxActivations == 4

\* Number of push_operand and push_operation calls made on one engine.
MaxPushes == 5

\* Event payloads handed to fire (TextDocumentChangeEvent values).
Events == {"e1", "e2"}

\* Command names the guest registers, and those the host may send.
CommandNames == {"run", "stop"}

HostCommandNames == CommandNames \cup {"unknown"}

VARIABLES
    emitter_init,   \* Lazy<EventEmitter>: has ON_DID_CHANGE_TEXT_DOCUMENT been forced
    next_id,        \* EventEmitter.next_id (0 while the Lazy is not forced)
    listeners,      \* EventEmitter.listeners: IndexMap as a sequence of [id, cb]
    hook_calls,     \* calls of workspace::register_on_did_change_text_document
    unhook_calls,   \* calls of workspace::unregister_on_did_change_text_document
    dispose_calls,  \* per handle: completed invocations of the disposer `on` returned
    issued,         \* handles assigned by `on`, in call order
    fault,          \* "none", or the panic that stopped the guest
    lastOp,         \* the last emitter operation and what it observed
    handlers_init,  \* rust-api commands: has the Lazy HANDLERS been forced
    HANDLERS,       \* rust-api commands: the HashMap, a set of [name, handler]
    unregister,     \* per register_command call: the name its disposer captured
    callbacks,      \* per register_command call: what the callback passed does
    host_commands,  \* names passed to the host's commands::register_command
    tb_set,         \* testbed commands: has the OnceCell HANDLERS been set
    tb_HANDLERS,    \* testbed commands: the HashMap inside the OnceCell
    tb_host,        \* testbed commands: names passed to the host's register_command
    lastCmd,        \* the last command operation and what it observed
    vs_init,        \* vscode-rust-api: has its Lazy ON_DID_CHANGE_TEXT_DOCUMENT been forced
    vs_next_id,     \* vscode-rust-api EventEmitter.next_id (0 while not forced)
    vs_listeners,   \* vscode-rust-api EventEmitter.listeners: IndexMap as a sequence
    vs_hook_calls,  \* vscode-rust-api: calls of the hook box (register_on_did_change_text_document)
    vs_unhook_calls,\* vscode-rust-api: calls of the unhook box
    vs_issued,      \* vscode-rust-api: handles assigned by `on`, in call order
    vs_disposed,    \* vscode-rust-api: handles whose disposer has been invoked
    lastVs,         \* the last vscode-rust-api operation and what it observed
    disposables,    \* Disposables.disposables: the Vec of boxed disposers
    lastDisp,       \* the last Disposables operation and what it observed
    left,           \* EngineImpl.left: Option<u32>
    right,          \* EngineImpl.right: Option<u32>
    pushed,         \* the push_operand / push_operation calls made on the engine
    lastCalc        \* the last engine operation and what it returned

emitterVars == <<emitter_init, next_id, listeners, hook_calls, unhook_calls,
                 dispose_calls, issued, fault, lastOp>>

commandVars == <<handlers_init, HANDLERS, unregister, callbacks, host_commands,
                 tb_set, tb_HANDLERS, tb_host, lastCmd>>

vsVars == <<vs_init, vs_next_id, vs_listeners, vs_hook_calls, vs_unhook_calls,
            vs_issued, vs_disposed, lastVs>>

vars == <<emitter_init, next_id, listeners, hook_calls, unhook_calls,
          dispose_calls, issued, fault, lastOp,
          handlers_init, HANDLERS, unregister, callbacks, host_commands,
          tb_set, tb_HANDLERS, tb_host, lastCmd,
          vs_init, vs_next_id, vs_listeners, vs_hook_calls, vs_unhook_calls,
          vs_issued, vs_disposed, lastVs,
          disposables, lastDisp,
          left, right, pushed, lastCalc>>

disposablesVars == <<disposables, lastDisp>>

calcVars == <<left, right, pushed, lastCalc>>

\* What the operations of one component leave alone.
outsideEmitter == <<commandVars, vsVars, disposablesVars, calcVars>>

outsideCommands == <<emitter_init, next_id, listeners, hook_calls, unhook_calls,
                     dispose_calls, issued, lastOp, vsVars, disposablesVars, calcVars>>

outsideVs == <<emitter_init, next_id, listeners, hook_calls, unhook_calls,
               dispose_calls, issued, lastOp, commandVars, disposablesVars, calcVars>>

\* ------------------------------------------------------- listener closures
\* A listener passed to `on` is a closure.  "plain" only observes the event.
\* "dispose" holds (through a shared cell) the disposer of handle `target`
\* and calls it when invoked, if that disposer has been created by then.
\* "subscribe" calls on_did_change_text_document with a plain listener.
PlainListener == [kind |-> "plain", target |-> 0]

DisposingListener(t) == [kind |-> "dispose", target |-> t]

SubscribingListener == [kind |-> "subscribe", target |-> 0]

ListenerClosures ==
    {PlainListener, SubscribingListener} \cup {DisposingListener(t) : t \in 1..MaxSubs}

\* ------------------------------------------------------------ IndexMap ops
\* IndexMap::len
len(ls) == Len(ls)

\* IndexMap::insert: a present key keeps its position and gets the new value,
\* an absent key is appended.
insert(ls, id, cb) ==
    IF \E i \in 1..Len(ls) : ls[i].id = id
    THEN [i \in 1..Len(ls) |-> IF ls[i].id = id THEN [id |-> id, cb |-> cb] ELSE ls[i]]
    ELSE Append(ls, [id |-> id, cb |-> cb])

\* Mutant: IndexMap::swap_remove (also IndexMap::remove): the last entry takes the place of the removed one.
swap_remove(ls, id) ==
    IF \E i \in 1..Len(ls) : ls[i].id = id
    THEN LET k == CHOOSE i \in 1..Len(ls) : ls[i].id = id
         IN  [i \in 1..(Len(ls) - 1) |-> IF i = k THEN ls[Len(ls)] ELSE ls[i]]
    ELSE ls

\* Mutant: IndexMap::shift_remove_index called with the handle as the index.
shift_remove_ByIndex(ls, id) ==
    [i \in 1..(Len(ls) - (IF id < Len(ls) THEN 1 ELSE 0)) |->
        IF i <= id THEN ls[i] ELSE ls[i + 1]]

\* IndexMap::shift_remove: removes the entry with this key, if any, and keeps
\* the order of the others.
shift_remove(ls, id) ==
    SelectSeq(ls, LAMBDA l : l.id # id)

\* ------------------------------------------------------------ EventEmitter
\* EventEmitter::new
EventEmitter_new == [next_id |-> 1, listeners |-> <<>>]

\* Deref of the Lazy static: the emitter, constructed on first use.
ON_DID_CHANGE_TEXT_DOCUMENT ==
    IF emitter_init
    THEN [next_id |-> next_id, listeners |-> listeners]
    ELSE EventEmitter_new

\* The closure `on` returns, for handle `id`, run on listeners `ls`.
\* `borrowed` says a RefCell borrow of the listeners is alive (fire's loop):
\* borrow_mut then panics.  `unhook` is the number of unhook calls made.
Disposer(ls, id, borrowed) ==
    IF borrowed
    THEN [listeners |-> ls, unhook |-> 0, fault |-> "BorrowMutError"]
    ELSE LET after == shift_remove(ls, id)
         IN  [listeners |-> after,
              unhook    |-> IF len(after) = 0 THEN 1 ELSE 0,
              fault     |-> "none"]

\* Mutant: hook is called by every subscribe.
on_AlwaysHook(em, cb) ==
    [hook      |-> 1,
     id        |-> em.next_id,
     next_id   |-> em.next_id + 1,
     listeners |-> insert(em.listeners, em.next_id, cb)]

\* Mutant: the handle is taken from the number of listeners.
on_IdFromLen(em, cb) ==
    [hook      |-> IF len(em.listeners) = 0 THEN 1 ELSE 0,
     id        |-> len(em.listeners) + 1,
     next_id   |-> em.next_id + 1,
     listeners |-> insert(em.listeners, len(em.listeners) + 1, cb)]

\* EventEmitter::on on emitter `em` with closure `cb`: the emitter afterwards,
\* the handle the returned disposer captures, and the number of hook calls.
\* next_id is a u32; the callers keep it at most MaxSubs, far below u32::MAX,
\* where `next_id += 1` would overflow.
on(em, cb) ==
    [hook      |-> IF len(em.listeners) = 0 THEN 1 ELSE 0,
     id        |-> em.next_id,
     next_id   |-> em.next_id + 1,
     listeners |-> insert(em.listeners, em.next_id, cb)]

\* EventEmitter::on called while a RefCell borrow of the listeners is alive
\* (from a listener inside fire's loop): len() is read, next_id is taken and
\* incremented, then borrow_mut panics before the insert.
on_borrowed(em, cb) ==
    [hook      |-> IF len(em.listeners) = 0 THEN 1 ELSE 0,
     id        |-> em.next_id,
     next_id   |-> em.next_id + 1,
     listeners |-> em.listeners,
     fault     |-> "BorrowMutError"]

\* One listener call inside fire's loop, the loop's borrow being alive.
CallListener(l, e, nid, st) ==
    LET seen == [st EXCEPT !.invoked = Append(@, [id |-> l.id, event |-> e])]
    IN  IF l.cb.kind = "dispose" /\ l.cb.target < nid
        THEN LET d == Disposer(seen.listeners, l.cb.target, TRUE)
             IN  [seen EXCEPT !.listeners = d.listeners,
                              !.unhook    = @ + d.unhook,
                              !.fault     = d.fault,
                              !.reentered = l.cb.target]
        ELSE IF l.cb.kind = "subscribe"
        THEN LET r == on_borrowed([next_id |-> seen.next_id, listeners |-> seen.listeners],
                                  PlainListener)
             IN  [seen EXCEPT !.listeners = r.listeners,
                              !.next_id   = r.next_id,
                              !.hook      = @ + r.hook,
                              !.fault     = r.fault,
                              !.resub     = TRUE]
        ELSE seen

\* The for loop of fire from position i on; a panic ends it.
RECURSIVE FireLoop(_, _, _, _)
FireLoop(i, e, nid, st) ==
    IF st.fault # "none" THEN st
    ELSE IF i > Len(st.listeners) THEN [st EXCEPT !.completed = TRUE]
    ELSE FireLoop(i + 1, e, nid, CallListener(st.listeners[i], e, nid, st))

\* Mutant: the loop drains the listeners it calls.
fire_Drain(em, e) ==
    [FireLoop(1, e, em.next_id,
              [listeners |-> em.listeners, next_id |-> em.next_id, hook |-> 0,
               unhook |-> 0, fault |-> "none", invoked |-> <<>>,
               completed |-> FALSE, reentered |-> 0, resub |-> FALSE])
     EXCEPT !.listeners = <<>>]

\* EventEmitter::fire
fire(em, e) ==
    FireLoop(1, e, em.next_id,
             [listeners |-> em.listeners, next_id |-> em.next_id, hook |-> 0,
              unhook |-> 0, fault |-> "none", invoked |-> <<>>,
              completed |-> FALSE, reentered |-> 0, resub |-> FALSE])

\* ------------------------------------------------------------------- state
Op(op, id, event, invoked, completed, reentered) ==
    [op |-> op, id |-> id, event |-> event, invoked |-> invoked,
     completed |-> completed, reentered |-> reentered, resub |-> FALSE]

EmitterInit ==
    /\ emitter_init = FALSE
    /\ next_id = 0
    /\ listeners = <<>>
    /\ hook_calls = 0
    /\ unhook_calls = 0
    /\ dispose_calls = [id \in 1..MaxSubs |-> 0]
    /\ issued = <<>>
    /\ fault = "none"
    /\ lastOp = Op("init", 0, "none", <<>>, TRUE, 0)

\* workspace::on_did_change_text_document(listener)
OnDidChangeTextDocument(cb) ==
    /\ fault = "none"
    /\ ON_DID_CHANGE_TEXT_DOCUMENT.next_id <= MaxSubs
    /\ LET r == on(ON_DID_CHANGE_TEXT_DOCUMENT, cb)
       IN  /\ emitter_init' = TRUE
           /\ next_id' = r.next_id
           /\ listeners' = r.listeners
           /\ hook_calls' = hook_calls + r.hook
           /\ issued' = Append(issued, r.id)
           /\ lastOp' = Op("on", r.id, "none", <<>>, TRUE, 0)
    /\ UNCHANGED <<unhook_calls, dispose_calls, fault>>
    /\ UNCHANGED outsideEmitter

\* The guest invokes, outside of fire, the disposer `on` returned for `id`.
Dispose(id) ==
    /\ fault = "none"
    /\ emitter_init
    /\ id < next_id
    /\ dispose_calls[id] < MaxDisposeCalls
    /\ LET d == Disposer(listeners, id, FALSE)
       IN  /\ listeners' = d.listeners
           /\ unhook_calls' = unhook_calls + d.unhook
           /\ fault' = d.fault
    /\ dispose_calls' = [dispose_calls EXCEPT ![id] = @ + 1]
    /\ lastOp' = Op("dispose", id, "none", <<>>, TRUE, 0)
    /\ UNCHANGED <<emitter_init, next_id, hook_calls, issued>>
    /\ UNCHANGED outsideEmitter

\* workspace::fire_did_change_text_document(event), the host's callback.
FireDidChangeTextDocument(e) ==
    /\ fault = "none"
    /\ LET em == ON_DID_CHANGE_TEXT_DOCUMENT
           r  == fire(em, e)
       IN  /\ emitter_init' = TRUE
           /\ next_id' = r.next_id
           /\ listeners' = r.listeners
           /\ hook_calls' = hook_calls + r.hook
           /\ unhook_calls' = unhook_calls + r.unhook
           /\ fault' = r.fault
           /\ lastOp' = [Op("fire", 0, e, r.invoked, r.completed, r.reentered)
                           EXCEPT !.resub = r.resub]
    /\ UNCHANGED <<dispose_calls, issued>>
    /\ UNCHANGED outsideEmitter

EmitterNext ==
    \/ \E cb \in ListenerClosures : OnDidChangeTextDocument(cb)
    \/ \E id \in 1..MaxSubs : Dispose(id)
    \/ \E e \in Events : FireDidChangeTextDocument(e)

\* ---------------------------------------------------------------- HashMap
\* Handlers are identified by the register_command call that passed them;
\* 0 stands for None.
\* HashMap::get
hashmap_get(m, k) ==
    IF \E x \in m : x.name = k
    THEN (CHOOSE x \in m : x.name = k).handler
    ELSE 0

\* Mutant: HashMap::entry(k).or_insert(h), which keeps a present value.
hashmap_insert_OrInsert(m, k, h) ==
    [map |-> IF \E x \in m : x.name = k THEN m ELSE m \cup {[name |-> k, handler |-> h]},
     old |-> 0]

\* HashMap::insert: the map with k mapped to h alone, and the value replaced.
hashmap_insert(m, k, h) ==
    [map |-> {x \in m : x.name # k} \cup {[name |-> k, handler |-> h]},
     old |-> hashmap_get(m, k)]

\* HashMap::remove: the map without k, and the value removed.
hashmap_remove(m, k) ==
    [map |-> {x \in m : x.name # k},
     old |-> hashmap_get(m, k)]

\* ---------------------------------------------------------------- commands
\* Mutant: the lookup falls back to any registered handler.
execute_command_Any(m, command) ==
    IF m = {} THEN <<>> ELSE <<(CHOOSE x \in m : TRUE).handler>>

\* commands::execute_command on table m: the handlers it calls, in order.
execute_command(m, command) ==
    LET handler == hashmap_get(m, command)
    IN  IF handler # 0 THEN <<handler>> ELSE <<>>

\* The closure register_command returns, `name` being its captured string.
Unregister(m, name) == hashmap_remove(m, name)

\* What a callback passed to register_command does when called: "plain"
\* touches no table; "dispose_self" calls the disposer its own registration
\* returned; "reregister" calls register_command for its own name.
HandlerClosures == {"plain", "dispose_self", "reregister"}

\* The body of callback k, of kind cb, called by execute_command(command)
\* through the reference HANDLERS.get returned; fresh is the next callback.
\* `destroyed` says the Box being called was taken out of the map and dropped
\* during the call (the value HashMap::remove or insert returned is dropped
\* at the end of that statement); `registered` are the names given to a
\* nested register_command.
RunHandler(m, command, k, cb, fresh) ==
    IF cb = "dispose_self"
    THEN LET r == Unregister(m, command)
         IN  [map |-> r.map, destroyed |-> r.old = k, registered |-> <<>>]
    ELSE IF cb = "reregister"
    THEN LET r == hashmap_insert(m, command, fresh)
         IN  [map |-> r.map, destroyed |-> r.old = k, registered |-> <<command>>]
    ELSE [map |-> m, destroyed |-> FALSE, registered |-> <<>>]

Cmd(crate, op, name, handler, old, invoked) ==
    [crate |-> crate, op |-> op, name |-> name, handler |-> handler,
     old |-> old, invoked |-> invoked, reentrant |-> "plain", destroyed |-> FALSE]

CommandInit ==
    /\ handlers_init = FALSE
    /\ HANDLERS = {}
    /\ unregister = <<>>
    /\ callbacks = <<>>
    /\ host_commands = <<>>
    /\ tb_set = FALSE
    /\ tb_HANDLERS = {}
    /\ tb_host = <<>>
    /\ lastCmd = Cmd("none", "init", "none", 0, 0, <<>>)

\* rust-api commands::register_command(command, callback), the callback
\* being of kind cb.
RegisterCommandWith(command, cb) ==
    /\ fault = "none"
    /\ Len(unregister) < MaxRegs
    /\ LET callback == Len(unregister) + 1
           r == hashmap_insert(HANDLERS, command, callback)
       IN  /\ HANDLERS' = r.map
           /\ lastCmd' = Cmd("rust-api", "register_command", command, callback, r.old, <<>>)
    /\ handlers_init' = TRUE
    /\ host_commands' = Append(host_commands, command)
    /\ unregister' = Append(unregister, command)
    /\ callbacks' = Append(callbacks, cb)
    /\ UNCHANGED <<tb_set, tb_HANDLERS, tb_host>>
    /\ UNCHANGED <<fault, outsideCommands>>

\* register_command with a callback that touches no table.
RegisterCommand(command) == RegisterCommandWith(command, "plain")

\* The guest invokes the disposer that the k-th register_command returned.
DisposeCommand(k) ==
    /\ fault = "none"
    /\ k \in 1..Len(unregister)
    /\ LET r == Unregister(HANDLERS, unregister[k])
       IN  /\ HANDLERS' = r.map
           /\ lastCmd' = Cmd("rust-api", "dispose", unregister[k], k, r.old, <<>>)
    /\ UNCHANGED <<handlers_init, host_commands, unregister, callbacks,
                   tb_set, tb_HANDLERS, tb_host>>
    /\ UNCHANGED <<fault, outsideCommands>>

\* rust-api commands::execute_command(command), the host's callback.  A
\* callback that was dropped while running is a use after free: the call may
\* return normally or fault.
ExecuteCommand(command) ==
    /\ fault = "none"
    /\ handlers_init' = TRUE
    /\ LET k  == hashmap_get(HANDLERS, command)
           cb == IF k = 0 THEN "plain" ELSE callbacks[k]
           r  == RunHandler(HANDLERS, command, k, cb, Len(unregister) + 1)
       IN  /\ Len(unregister) + Len(r.registered) <= MaxRegs
           /\ HANDLERS' = r.map
           /\ host_commands' = host_commands \o r.registered
           /\ unregister' = unregister \o r.registered
           /\ callbacks' = callbacks \o [i \in 1..Len(r.registered) |-> "plain"]
           /\ fault' \in (IF r.destroyed THEN {"none", "UseAfterFree"} ELSE {"none"})
           /\ lastCmd' = [Cmd("rust-api", "execute_command", command, 0, 0,
                              execute_command(HANDLERS, command))
                          EXCEPT !.reentrant = cb, !.destroyed = r.destroyed]
    /\ UNCHANGED <<tb_set, tb_HANDLERS, tb_host>>
    /\ UNCHANGED <<emitter_init, next_id, listeners, hook_calls, unhook_calls,
                   dispose_calls, issued, lastOp, vsVars, disposablesVars, calcVars>>

\* testbed vscode::commands::register_command: sets the OnceCell when unset.
TestbedRegisterCommand(command) ==
    /\ fault = "none"
    /\ Len(tb_host) < MaxRegs
    /\ LET table == IF tb_set THEN tb_HANDLERS ELSE {}
           r == hashmap_insert(table, command, Len(tb_host) + 1)
       IN  /\ tb_HANDLERS' = r.map
           /\ lastCmd' = Cmd("testbed", "register_command", command, Len(tb_host) + 1, r.old, <<>>)
    /\ tb_set' = TRUE
    /\ tb_host' = Append(tb_host, command)
    /\ UNCHANGED <<handlers_init, HANDLERS, host_commands, unregister, callbacks>>
    /\ UNCHANGED <<fault, outsideCommands>>

\* testbed vscode::commands::execute_command: returns when the OnceCell is unset.
TestbedExecuteCommand(command) ==
    /\ fault = "none"
    /\ lastCmd' = Cmd("testbed", "execute_command", command, 0, 0,
                      IF ~tb_set THEN <<>> ELSE execute_command(tb_HANDLERS, command))
    /\ UNCHANGED <<handlers_init, HANDLERS, host_commands, unregister, callbacks,
                   tb_set, tb_HANDLERS, tb_host>>
    /\ UNCHANGED <<fault, outsideCommands>>

CommandNext ==
    \/ \E command \in CommandNames : RegisterCommand(command)
    \/ \E k \in 1..MaxRegs : DisposeCommand(k)
    \/ \E command \in HostCommandNames : ExecuteCommand(command)
    \/ \E command \in CommandNames : TestbedRegisterCommand(command)
    \/ \E command \in HostCommandNames : TestbedExecuteCommand(command)

\* ------------------------------------------- vscode-rust-api EventEmitter
\* IndexMap::remove, which is swap_remove: the last entry takes the place of
\* the removed one.
remove(ls, id) ==
    IF \E i \in 1..Len(ls) : ls[i].id = id
    THEN LET k == CHOOSE i \in 1..Len(ls) : ls[i].id = id
         IN  [i \in 1..(Len(ls) - 1) |-> IF i = k THEN ls[Len(ls)] ELSE ls[i]]
    ELSE ls

\* Deref of the vscode-rust-api Lazy static (EventEmitter::new on first use).
VS_ON_DID_CHANGE_TEXT_DOCUMENT ==
    IF vs_init
    THEN [next_id |-> vs_next_id, listeners |-> vs_listeners]
    ELSE [next_id |-> 1, listeners |-> <<>>]

\* vscode-rust-api EventEmitter::on: it makes no hook call.
vs_on(em, cb) ==
    [hook      |-> 0,
     id        |-> em.next_id,
     next_id   |-> em.next_id + 1,
     listeners |-> insert(em.listeners, em.next_id, cb)]

\* vscode-rust-api EventEmitter::remove: it makes no unhook call.
vs_remove(ls, id) ==
    [listeners |-> remove(ls, id), unhook |-> 0]

\* vscode-rust-api EventEmitter::fire: the listeners it calls, in order.
vs_fire(ls, e) ==
    [i \in 1..Len(ls) |-> [id |-> ls[i].id, event |-> e]]

\* The body of the exported Guest::did_change_text_document, which is empty:
\* the listeners it calls.
vs_did_change_text_document(ls, e) == <<>>

VsOp(op, id, event, invoked) ==
    [op |-> op, id |-> id, event |-> event, invoked |-> invoked]

VsInit ==
    /\ vs_init = FALSE
    /\ vs_next_id = 0
    /\ vs_listeners = <<>>
    /\ vs_hook_calls = 0
    /\ vs_unhook_calls = 0
    /\ vs_issued = <<>>
    /\ vs_disposed = {}
    /\ lastVs = VsOp("init", 0, "none", <<>>)

\* vscode-rust-api workspace::on_did_change_text_document(listener)
VsOnDidChangeTextDocument ==
    /\ fault = "none"
    /\ VS_ON_DID_CHANGE_TEXT_DOCUMENT.next_id <= MaxVsSubs
    /\ LET r == vs_on(VS_ON_DID_CHANGE_TEXT_DOCUMENT, PlainListener)
       IN  /\ vs_init' = TRUE
           /\ vs_next_id' = r.next_id
           /\ vs_listeners' = r.listeners
           /\ vs_hook_calls' = vs_hook_calls + r.hook
           /\ vs_issued' = Append(vs_issued, r.id)
           /\ lastVs' = VsOp("on", r.id, "none", <<>>)
    /\ UNCHANGED <<vs_unhook_calls, vs_disposed, fault>>
    /\ UNCHANGED outsideVs

\* The guest invokes the disposer the vscode-rust-api `on` returned for `id`.
VsDispose(id) ==
    /\ fault = "none"
    /\ vs_init
    /\ id < vs_next_id
    /\ LET r == vs_remove(vs_listeners, id)
       IN  /\ vs_listeners' = r.listeners
           /\ vs_unhook_calls' = vs_unhook_calls + r.unhook
    /\ vs_disposed' = vs_disposed \cup {id}
    /\ lastVs' = VsOp("dispose", id, "none", <<>>)
    /\ UNCHANGED <<vs_init, vs_next_id, vs_hook_calls, vs_issued, fault>>
    /\ UNCHANGED outsideVs

\* EventEmitter::fire(event) called on the vscode-rust-api emitter.
VsFire(e) ==
    /\ fault = "none"
    /\ vs_init
    /\ lastVs' = VsOp("fire", 0, e, vs_fire(vs_listeners, e))
    /\ UNCHANGED <<vs_init, vs_next_id, vs_listeners, vs_hook_calls, vs_unhook_calls,
                   vs_issued, vs_disposed, fault>>
    /\ UNCHANGED outsideVs

\* The host calls the vscode-rust-api export did_change_text_document(event).
VsDidChangeTextDocument(e) ==
    /\ fault = "none"
    /\ lastVs' = VsOp("did_change_text_document", 0, e,
                      vs_did_change_text_document(vs_listeners, e))
    /\ UNCHANGED <<vs_init, vs_next_id, vs_listeners, vs_hook_calls, vs_unhook_calls,
                   vs_issued, vs_disposed, fault>>
    /\ UNCHANGED outsideVs

VsNext ==
    \/ VsOnDidChangeTextDocument
    \/ \E id \in 1..MaxVsSubs : VsDispose(id)
    \/ \E e \in Events : VsFire(e)
    \/ \E e \in Events : VsDidChangeTextDocument(e)

\* ------------------------------------------------------------- Disposables
\* A boxed disposer held by Disposables: the closure on_did_change_text_document
\* returned for handle `ref`, or the one the ref-th register_command returned.
ListenerDisposer(id) == [kind |-> "listener", ref |-> id]

CommandDisposer(k) == [kind |-> "command", ref |-> k]

\* Disposables::new
Disposables_new == <<>>

\* Disposables::push
push(ds, disposable) == Append(ds, disposable)

\* The call `disposable()` of dispose's loop, on the registries in st.
CallDisposable(d, st) ==
    IF d.kind = "listener"
    THEN LET r == Disposer(st.listeners, d.ref, FALSE)
         IN  [st EXCEPT !.listeners = r.listeners,
                        !.unhook = @ + r.unhook,
                        !.called = Append(@, d)]
    ELSE [st EXCEPT !.map = Unregister(@, unregister[d.ref]).map,
                    !.called = Append(@, d)]

RECURSIVE DrainLoop(_, _, _)
\* The loop of dispose over the drained elements, from index i on.
DrainLoop(ds, i, st) ==
    IF i > Len(ds) THEN st ELSE DrainLoop(ds, i + 1, CallDisposable(ds[i], st))

\* Mutant: the loop runs over disposables.iter(), which removes nothing.
dispose_Iter(ds, ls, m) ==
    [DrainLoop(ds, 1, [listeners |-> ls, unhook |-> 0, map |-> m,
                       called |-> <<>>, rest |-> <<>>])
        EXCEPT !.rest = ds]

\* Disposables::dispose: drain(..) empties the Vec and yields its elements
\* front to back.  `rest` is what the Vec holds afterwards, `called` the
\* disposers called, in call order.
dispose(ds, ls, m) ==
    DrainLoop(ds, 1, [listeners |-> ls, unhook |-> 0, map |-> m,
                      called |-> <<>>, rest |-> <<>>])

DispOp(op, pending, called) == [op |-> op, pending |-> pending, called |-> called]

DisposablesInit ==
    /\ disposables = Disposables_new
    /\ lastDisp = DispOp("new", <<>>, <<>>)

\* disposables.push(workspace::on_did_change_text_document(listener)), the
\* listener only observing the event.
PushOnDidChangeTextDocument ==
    /\ fault = "none"
    /\ Len(issued) + Len(unregister) < MaxActivations
    /\ ON_DID_CHANGE_TEXT_DOCUMENT.next_id <= MaxSubs
    /\ LET r == on(ON_DID_CHANGE_TEXT_DOCUMENT, PlainListener)
       IN  /\ emitter_init' = TRUE
           /\ next_id' = r.next_id
           /\ listeners' = r.listeners
           /\ hook_calls' = hook_calls + r.hook
           /\ issued' = Append(issued, r.id)
           /\ lastOp' = Op("on", r.id, "none", <<>>, TRUE, 0)
           /\ disposables' = push(disposables, ListenerDisposer(r.id))
    /\ lastDisp' = DispOp("push", <<>>, <<>>)
    /\ UNCHANGED <<unhook_calls, dispose_calls, fault>>
    /\ UNCHANGED <<commandVars, vsVars, calcVars>>

\* disposables.push(commands::register_command(command, callback)), the
\* callback touching no table.
PushRegisterCommand(command) ==
    /\ fault = "none"
    /\ Len(issued) + Len(unregister) < MaxActivations
    /\ Len(unregister) < MaxRegs
    /\ LET callback == Len(unregister) + 1
           r == hashmap_insert(HANDLERS, command, callback)
       IN  /\ HANDLERS' = r.map
           /\ lastCmd' = Cmd("rust-api", "register_command", command, callback, r.old, <<>>)
           /\ disposables' = push(disposables, CommandDisposer(callback))
    /\ handlers_init' = TRUE
    /\ host_commands' = Append(host_commands, command)
    /\ unregister' = Append(unregister, command)
    /\ callbacks' = Append(callbacks, "plain")
    /\ lastDisp' = DispOp("push", <<>>, <<>>)
    /\ UNCHANGED <<tb_set, tb_HANDLERS, tb_host>>
    /\ UNCHANGED <<fault, emitter_init, next_id, listeners, hook_calls, unhook_calls,
                   dispose_calls, issued, lastOp, vsVars, calcVars>>

\* commands::register_command(command, callback) with the disposer dropped.
DropRegisterCommand(command) ==
    /\ Len(issued) + Len(unregister) < MaxActivations
    /\ RegisterCommand(command)

\* Disposables::dispose, the disposers acting on the two registries.
DisposablesDispose ==
    /\ fault = "none"
    /\ LET r == dispose(disposables, listeners, HANDLERS)
       IN  /\ disposables' = r.rest
           /\ listeners' = r.listeners
           /\ unhook_calls' = unhook_calls + r.unhook
           /\ HANDLERS' = r.map
           /\ dispose_calls' =
                 [id \in 1..MaxSubs |->
                    dispose_calls[id]
                      + Cardinality({i \in 1..Len(r.called) : r.called[i] = ListenerDisposer(id)})]
           /\ lastDisp' = DispOp("dispose", disposables, r.called)
    /\ UNCHANGED <<emitter_init, next_id, hook_calls, issued, fault, lastOp>>
    /\ UNCHANGED <<handlers_init, unregister, callbacks, host_commands,
                   tb_set, tb_HANDLERS, tb_host, lastCmd, vsVars, calcVars>>

\* An extension built as activate builds it: every listener is subscribed
\* with its disposer pushed, commands are registered with the disposer pushed
\* or dropped, and the host delivers events and commands.
DisposablesNext ==
    \/ PushOnDidChangeTextDocument
    \/ \E command \in CommandNames : PushRegisterCommand(command)
    \/ \E command \in CommandNames : DropRegisterCommand(command)
    \/ DisposablesDispose
    \/ \E e \in Events : FireDidChangeTextDocument(e)
    \/ \E command \in HostCommandNames : ExecuteCommand(command)

\* -------------------------------------------------------------- u32 values
\* A u32 is held as two 16-bit limbs, value = hi * Limb + lo, so that the
\* whole range 0 .. u32::MAX and the carries out of it are exact.
LimbBits == 16

Limb == 2 ^ LimbBits

u32(hi, lo) == [hi |-> hi, lo |-> lo]

\* The u32 of a number below 2^31.
u32_from(n) == u32(n \div Limb, n % Limb)

\* u32::MAX
U32_MAX == u32(Limb - 1, Limb - 1)

\* a < b on u32
u32_lt(a, b) == a.hi < b.hi \/ (a.hi = b.hi /\ a.lo < b.lo)

\* a + b on u32: the wrapped sum, and whether the sum overflows.
u32_add(a, b) ==
    LET s == a.lo + b.lo
        h == a.hi + b.hi + s \div Limb
    IN  [value |-> u32(h % Limb, s % Limb), overflow |-> h >= Limb]

\* a - b on u32: the wrapped difference, and whether it is negative.
u32_sub(a, b) ==
    LET l == a.lo - b.lo
        h == a.hi - b.hi - (IF l < 0 THEN 1 ELSE 0)
    IN  [value |-> u32((h + Limb) % Limb, (l + Limb) % Limb), overflow |-> u32_lt(a, b)]

\* The exact product of two limbs, as two limbs.
limb_mul(x, y) ==
    LET p == x * (y \div 256)
        q == x * (y % 256)
        t == (p % 256) * 256 + q
    IN  u32(p \div 256 + t \div Limb, t % Limb)

\* a * b on u32: the wrapped product, and whether the product overflows.
u32_mul(a, b) ==
    LET ll == limb_mul(a.lo, b.lo)
        hl == limb_mul(a.hi, b.lo)
        lh == limb_mul(a.lo, b.hi)
        mid == ll.hi + hl.lo + lh.lo
    IN  [value |-> u32(mid % Limb, ll.lo),
         overflow |-> \/ (a.hi > 0 /\ b.hi > 0)
                      \/ hl.hi > 0
                      \/ lh.hi > 0
                      \/ mid >= Limb]

\* a / d for a divisor d # 0 of one limb: schoolbook division, the low limb
\* of a being brought down in two halves.
div_by_limb(a, d) ==
    LET t1 == (a.hi % d) * 256 + (a.lo \div 256)
        t2 == (t1 % d) * 256 + (a.lo % 256)
    IN  u32(a.hi \div d, (t1 \div d) * 256 + (t2 \div d))

\* a / b for a divisor of two limbs: the quotient q, of one limb, is the one
\* with q * b <= a < q * b + b, and lies between these two estimates.
div_by_two_limbs(a, b) ==
    CHOOSE q \in {u32(0, n) : n \in (a.hi \div (b.hi + 1)) .. (a.hi \div b.hi)} :
        /\ ~u32_mul(q, b).overflow
        /\ ~u32_lt(a, u32_mul(q, b).value)
        /\ u32_lt(u32_sub(a, u32_mul(q, b).value).value, b)

\* a / b on u32, b # 0: the truncated quotient, which never overflows.
u32_div(a, b) ==
    [value |-> IF b.hi = 0 THEN div_by_limb(a, b.lo) ELSE div_by_two_limbs(a, b),
     overflow |-> FALSE]

\* ------------------------------------------------------------- EngineImpl
\* Option<u32>
None == <<>>

Some(v) == <<v>>

unwrap(o) == o[1]

\* enum Operation
Operations == {"Add", "Sub", "Mul", "Div"}

\* Operands handed to push_operand.
Operands == {u32_from(0), u32_from(2), u32_from(3), U32_MAX}

\* EngineImpl::new
EngineImpl_new == [left |-> None, right |-> None]

\* EngineImpl::push_operand
push_operand(l, r, operand) ==
    IF l = None
    THEN [left |-> Some(operand), right |-> r]
    ELSE [left |-> l, right |-> Some(operand)]

\* The match of push_operation: the arithmetic on the two operands.
Arith(operation, x, y) ==
    CASE operation = "Add" -> u32_add(x, y)
      [] operation = "Sub" -> u32_sub(x, y)
      [] operation = "Mul" -> u32_mul(x, y)
      [] operation = "Div" -> u32_div(x, y)

\* Mutant: the operands are taken in the other order.
push_operation_Swapped(l, r, operation) ==
    IF l = None \/ r = None
    THEN {[left |-> l, right |-> r, fault |-> "UnwrapNone"]}
    ELSE IF operation = "Div" /\ unwrap(l) = u32(0, 0)
    THEN {[left |-> l, right |-> r, fault |-> "DivideByZero"]}
    ELSE LET x == Arith(operation, unwrap(r), unwrap(l))
         IN  IF x.overflow
             THEN {[left |-> l, right |-> r, fault |-> "Overflow"],
                   [left |-> Some(x.value), right |-> r, fault |-> "none"]}
             ELSE {[left |-> Some(x.value), right |-> r, fault |-> "none"]}

\* EngineImpl::push_operation: the outcomes a build can produce.  unwrap of
\* None and division by zero panic; an overflowing +, - or * panics where
\* overflow checks are compiled in and wraps where they are not.
push_operation(l, r, operation) ==
    IF l = None \/ r = None
    THEN {[left |-> l, right |-> r, fault |-> "UnwrapNone"]}
    ELSE IF operation = "Div" /\ unwrap(r) = u32(0, 0)
    THEN {[left |-> l, right |-> r, fault |-> "DivideByZero"]}
    ELSE LET x == Arith(operation, unwrap(l), unwrap(r))
         IN  IF x.overflow
             THEN {[left |-> l, right |-> r, fault |-> "Overflow"],
                   [left |-> Some(x.value), right |-> r, fault |-> "none"]}
             ELSE {[left |-> Some(x.value), right |-> r, fault |-> "none"]}

\* EngineImpl::execute
execute(l) ==
    IF l = None
    THEN [returned |-> None, fault |-> "UnwrapNone"]
    ELSE [returned |-> Some(unwrap(l)), fault |-> "none"]

Calc(op, returned) == [op |-> op, returned |-> returned]

OperandCall(operand) == [kind |-> "operand", value |-> operand]

OperationCall(operation) == [kind |-> "operation", value |-> operation]

CalcInit ==
    /\ left = EngineImpl_new.left
    /\ right = EngineImpl_new.right
    /\ pushed = <<>>
    /\ lastCalc = Calc("new", None)

\* What the engine's operations leave alone.
outsideCalc == <<emitter_init, next_id, listeners, hook_calls, unhook_calls,
                 dispose_calls, issued, lastOp, commandVars, vsVars, disposablesVars>>

\* GuestEngine::push_operand(operand)
PushOperand(operand) ==
    /\ fault = "none"
    /\ Len(pushed) < MaxPushes
    /\ LET r == push_operand(left, right, operand)
       IN  /\ left' = r.left
           /\ right' = r.right
    /\ pushed' = Append(pushed, OperandCall(operand))
    /\ lastCalc' = Calc("push_operand", None)
    /\ UNCHANGED <<fault, outsideCalc>>

\* GuestEngine::push_operation(operation)
PushOperation(operation) ==
    /\ fault = "none"
    /\ Len(pushed) < MaxPushes
    /\ \E r \in push_operation(left, right, operation) :
           /\ left' = r.left
           /\ right' = r.right
           /\ fault' = r.fault
    /\ pushed' = Append(pushed, OperationCall(operation))
    /\ lastCalc' = Calc("push_operation", None)
    /\ UNCHANGED outsideCalc

\* GuestEngine::execute()
Execute ==
    /\ fault = "none"
    /\ LET r == execute(left)
       IN  /\ fault' = r.fault
           /\ lastCalc' = Calc("execute", r.returned)
    /\ UNCHANGED <<left, right, pushed, outsideCalc>>

CalcNext ==
    \/ \E operand \in Operands : PushOperand(operand)
    \/ \E operation \in Operations : PushOperation(operation)
    \/ Execute

\* ---------------------------------------------------------- specifications
Init == EmitterInit /\ CommandInit /\ VsInit /\ DisposablesInit /\ CalcInit

\* The event emitter alone: the command tables stay as constructed.
EmitterSpec == Init /\ [][EmitterNext]_vars

\* The command tables alone: the emitter stays as constructed.
CommandSpec == Init /\ [][CommandNext]_vars

\* The rust-api command table with callbacks that call back into it.
HandlerNext ==
    \/ \E command \in CommandNames, cb \in HandlerClosures : RegisterCommandWith(command, cb)
    \/ \E k \in 1..MaxRegs : DisposeCommand(k)
    \/ \E command \in HostCommandNames : ExecuteCommand(command)

HandlerSpec == Init /\ [][HandlerNext]_vars

\* The vscode-rust-api emitter alone.
VsSpec == Init /\ [][VsNext]_vars

\* Both packages side by side: the guest subscribes and the host delivers
\* events through each package's exported did_change_text_document.
EventNext ==
    \/ \E cb \in ListenerClosures : OnDidChangeTextDocument(cb)
    \/ \E e \in Events : FireDidChangeTextDocument(e)
    \/ VsOnDidChangeTextDocument
    \/ \E e \in Events : VsDidChangeTextDocument(e)

EventSpec == Init /\ [][EventNext]_vars

DisposablesSpec == Init /\ [][DisposablesNext]_vars

\* The calculator engine alone.
CalcSpec == Init /\ [][CalcNext]_vars

Next == EmitterNext \/ CommandNext \/ VsNext \/ DisposablesNext \/ CalcNext

Spec == Init /\ [][Next]_vars

\* ---------------------------------------------------------- EventEmitter
\* Handles of the entries of a listener sequence.
Handles(ls) == {ls[i].id : i \in 1..Len(ls)}

Issued == {issued[i] : i \in 1..Len(issued)}

\* Every disposer returned so far has been invoked at most once.
EachDisposerAtMostOnce == \A id \in 1..MaxSubs : dispose_calls[id] <= 1

\* A listener that calls a disposer or `on` when fire invokes it.
Reenters(l) ==
    \/ l.cb.kind = "dispose" /\ l.cb.target < next_id
    \/ l.cb.kind = "subscribe"

C1_Counts ==
    EachDisposerAtMostOnce =>
        /\ 0 <= hook_calls - unhook_calls
        /\ hook_calls - unhook_calls <= 1
        /\ (hook_calls - unhook_calls = 1) <=> (Len(listeners) > 0)
        /\ (Issued # {} /\ \A h \in Issued : dispose_calls[h] = 1) => hook_calls = unhook_calls

C1_Step ==
    EachDisposerAtMostOnce' =>
        /\ hook_calls' # hook_calls =>
              /\ lastOp'.op = "on"
              /\ Len(listeners) = 0
              /\ hook_calls' = hook_calls + 1
        /\ (lastOp'.op = "on" /\ Len(listeners) = 0) => hook_calls' = hook_calls + 1
        /\ unhook_calls' # unhook_calls =>
              /\ lastOp'.op = "dispose"
              /\ Len(listeners) = 1
              /\ Len(listeners') = 0
              /\ unhook_calls' = unhook_calls + 1
        /\ (lastOp'.op = "dispose" /\ Len(listeners) = 1 /\ Len(listeners') = 0)
              => unhook_calls' = unhook_calls + 1

\* C1: over subscribe and dispose operations in which each disposer is invoked
\* at most once, hook calls minus unhook calls is 0 or 1, and is 1 exactly when
\* there are listeners; hook is called only by a subscribe that found no
\* listener, unhook only by the disposal that removed the last one; once all
\* listeners are disposed the two counts are equal.
C1_HookUnhookLifecycle == []C1_Counts /\ [][C1_Step]_vars

\* Two full runs of the listener count above zero, each disposer used once.
C1_Witness ==
    /\ EachDisposerAtMostOnce
    /\ hook_calls = 2
    /\ unhook_calls = 2
    /\ listeners = <<>>
    /\ Len(issued) = 3

\* C2: invoking a disposer a second or later time does not fault, leaves the
\* listeners and next_id unchanged and does not call unhook again.
C2_DisposerIdempotent ==
    [][(lastOp'.op = "dispose" /\ dispose_calls[lastOp'.id] >= 1) =>
          /\ listeners' = listeners
          /\ next_id' = next_id
          /\ unhook_calls' = unhook_calls
          /\ fault' = "none"]_vars

\* C3: when a listener invoked by fire calls a disposer of the same emitter,
\* nothing faults, fire completes, the disposed entry is gone and every other
\* live entry is still there, and no listener was invoked twice.
C3_ReentrantRemovalSafe ==
    (lastOp.op = "fire" /\ lastOp.reentered # 0) =>
        /\ fault = "none"
        /\ lastOp.completed
        /\ lastOp.reentered \notin Handles(listeners)
        /\ \A h \in Issued :
              (dispose_calls[h] = 0 /\ h # lastOp.reentered) => h \in Handles(listeners)
        /\ \A i, j \in 1..Len(lastOp.invoked) :
              lastOp.invoked[i].id = lastOp.invoked[j].id => i = j

\* The handles subscribed and not disposed, in subscription order.
LiveInOrder == SelectSeq(issued, LAMBDA h : dispose_calls[h] = 0)

\* C4: after subscribes and disposals made outside of fire, fire(e) invokes
\* exactly the listeners subscribed and not disposed, each once with e, in
\* subscription order.
C4_FanOutOrder ==
    (lastOp.op = "fire" /\ lastOp.reentered = 0 /\ ~lastOp.resub) =>
        /\ lastOp.completed
        /\ lastOp.invoked =
              [i \in 1..Len(LiveInOrder) |-> [id |-> LiveInOrder[i], event |-> lastOp.event]]

\* fire after the first of three listeners was removed.
C4_Witness ==
    /\ lastOp.op = "fire"
    /\ lastOp.reentered = 0
    /\ Len(issued) = 3
    /\ dispose_calls[1] = 1
    /\ Len(lastOp.invoked) = 2

\* C5: a listener whose disposer has returned is not invoked by a later fire;
\* when every listener has been disposed fire invokes none.
C5_DisposedNeverInvoked ==
    lastOp.op = "fire" =>
        /\ \A i \in 1..Len(lastOp.invoked) : dispose_calls[lastOp.invoked[i].id] = 0
        /\ (\A h \in Issued : dispose_calls[h] >= 1) => lastOp.invoked = <<>>

\* fire with one listener disposed and another still subscribed.
C5_Witness ==
    /\ lastOp.op = "fire"
    /\ Len(lastOp.invoked) >= 1
    /\ \E h \in Issued : dispose_calls[h] >= 1

\* C6: each handle assigned by a subscribe is greater than every handle
\* assigned before, removed or not, and live entries have distinct handles.
C6_HandlesNeverReused ==
    /\ \A i, j \in 1..Len(issued) : i < j => issued[i] < issued[j]
    /\ \A i, j \in 1..Len(listeners) : listeners[i].id = listeners[j].id => i = j

\* A subscribe made after an earlier entry was removed.
C6_Witness ==
    /\ lastOp.op = "on"
    /\ Len(issued) >= 2
    /\ \E h \in Issued : dispose_calls[h] >= 1

\* C7: fire leaves listeners, next_id and the hook and unhook counts as they
\* were when no listener re-enters the emitter; with no listener (also when
\* fire is what constructs the Lazy emitter) it invokes nothing and completes.
C7_FireFrame ==
    [][lastOp'.op = "fire" =>
          /\ (emitter_init /\ \A i \in 1..Len(listeners) : ~Reenters(listeners[i])) =>
                /\ listeners' = listeners
                /\ next_id' = next_id
                /\ hook_calls' = hook_calls
                /\ unhook_calls' = unhook_calls
          /\ Len(listeners) = 0 =>
                /\ lastOp'.invoked = <<>>
                /\ lastOp'.completed
                /\ fault' = "none"
                /\ listeners' = <<>>
                /\ hook_calls' = hook_calls
                /\ unhook_calls' = unhook_calls]_vars

\* fire completed on an emitter holding two listeners.
C7_Witness ==
    /\ lastOp.op = "fire"
    /\ lastOp.completed
    /\ Len(lastOp.invoked) = 2
    /\ Len(listeners) = 2

\* fire was the first use of the Lazy emitter.
C7_LazyWitness ==
    /\ lastOp.op = "fire"
    /\ emitter_init
    /\ issued = <<>>

\* -------------------------------------------------------------- commands
\* The command table the last command operation worked on.
TableOf(crate, rust, testbed) == IF crate = "testbed" THEN testbed ELSE rust

\* The handlers a table maps a name to.
Mapped(m, name) == {x.handler : x \in {y \in m : y.name = name}}

C8_Step ==
    lastCmd'.op = "execute_command" =>
        LET before == TableOf(lastCmd'.crate, HANDLERS, tb_HANDLERS)
            after  == TableOf(lastCmd'.crate, HANDLERS', tb_HANDLERS')
            mapped == Mapped(before, lastCmd'.name)
        IN  /\ after = before
            /\ fault' = "none"
            /\ mapped = {} => lastCmd'.invoked = <<>>
            /\ mapped # {} =>
                  /\ Len(lastCmd'.invoked) = 1
                  /\ mapped = {lastCmd'.invoked[1]}

\* C8: execute_command(n) invokes the handler mapped to n once and no other;
\* with no handler mapped to n (never registered, disposed, or the table not
\* initialised) it invokes nothing, does not fault and leaves the table as is.
C8_CommandDispatch == [][C8_Step]_vars

\* A dispatch that invoked one handler while another name was registered too.
C8_Witness ==
    /\ lastCmd.op = "execute_command"
    /\ lastCmd.crate = "rust-api"
    /\ Len(lastCmd.invoked) = 1
    /\ Cardinality(HANDLERS) = 2

\* A dispatch on the testbed table whose OnceCell was never set.
C8_UnsetWitness ==
    /\ lastCmd.op = "execute_command"
    /\ lastCmd.crate = "testbed"
    /\ ~tb_set

\* C9: a disposer returned by register_command removes only the registration
\* that returned it: every other registration mapped before is mapped after,
\* and is what execute_command of its name invokes.
C9_DisposerRemovesOwnRegistration ==
    [][lastCmd'.op = "dispose" =>
          \A x \in HANDLERS :
              x.handler # lastCmd'.handler =>
                  /\ x \in HANDLERS'
                  /\ execute_command(HANDLERS', x.name) = <<x.handler>>]_vars

C10_State ==
    /\ \A m \in {HANDLERS, tb_HANDLERS} :
          \A x, y \in m : x.name = y.name => x = y
    /\ lastCmd.op = "register_command" =>
          LET m == TableOf(lastCmd.crate, HANDLERS, tb_HANDLERS)
          IN  /\ Mapped(m, lastCmd.name) = {lastCmd.handler}
              /\ execute_command(m, lastCmd.name) = <<lastCmd.handler>>
              /\ lastCmd.old # lastCmd.handler

C10_Step ==
    lastCmd'.op = "register_command" =>
        LET before == TableOf(lastCmd'.crate, HANDLERS, tb_HANDLERS)
            after  == TableOf(lastCmd'.crate, HANDLERS', tb_HANDLERS')
        IN  /\ {x \in after : x.name # lastCmd'.name} = {x \in before : x.name # lastCmd'.name}
            /\ lastCmd'.old \in Mapped(before, lastCmd'.name) \cup {0}
            /\ lastCmd'.old = 0 <=> Mapped(before, lastCmd'.name) = {}

\* C10: a table maps a name to at most one handler; register_command(n, H2)
\* after register_command(n, H1) leaves n mapped to H2 alone, so that
\* execute_command(n) invokes H2 once and not H1, and leaves the handlers of
\* other names as they were.
C10_ReRegistrationReplaces == []C10_State /\ [][C10_Step]_vars

\* A registration that replaced a handler while another name was registered.
C10_Witness ==
    /\ lastCmd.op = "register_command"
    /\ lastCmd.crate = "rust-api"
    /\ lastCmd.old # 0
    /\ \E x \in HANDLERS : x.name # lastCmd.name

\* Number of times the host's commands::register_command was called with name.
HostDeclarations(h, name) == Cardinality({i \in 1..Len(h) : h[i] = name})

\* C11: the host's commands::register_command(n) is called only for a name
\* that is new: a register_command under a name that is registered at that
\* moment makes no further host declaration for it.
C11_HostDeclarationPerName ==
    [][(lastCmd'.op = "register_command" /\ lastCmd'.crate = "rust-api"
          /\ Mapped(HANDLERS, lastCmd'.name) # {}) =>
             HostDeclarations(host_commands', lastCmd'.name)
                = HostDeclarations(host_commands, lastCmd'.name)]_vars

\* ------------------------------------------------------ exported callbacks
\* The calls a fan-out of event e over listeners ls makes: each entry once.
EachOnce(ls, e) == [i \in 1..Len(ls) |-> [id |-> ls[i].id, event |-> e]]

\* C12: in both packages a host call of did_change_text_document(event)
\* invokes every listener registered through on_did_change_text_document once
\* with that event (for rust-api: when no listener re-enters the emitter).
C12_ExportsImplementedByRegistry ==
    [][/\ (lastOp'.op = "fire" /\ \A i \in 1..Len(listeners) : ~Reenters(listeners[i]))
            => lastOp'.invoked = EachOnce(listeners, lastOp'.event)
       /\ lastVs'.op = "did_change_text_document"
            => lastVs'.invoked = EachOnce(vs_listeners, lastVs'.event)]_vars

\* ------------------------------------------- vscode-rust-api EventEmitter
\* C15: in the vscode-rust-api emitter a subscribe that finds no listener
\* calls hook and the disposal of the last listener calls unhook, so that
\* after every operation the host is hooked exactly when there are listeners.
C15_VsHookUnhookLifecycle ==
    lastVs.op \in {"on", "dispose"} =>
        /\ vs_hook_calls - vs_unhook_calls \in {0, 1}
        /\ (vs_hook_calls - vs_unhook_calls = 1) <=> (Len(vs_listeners) > 0)

\* The vscode-rust-api handles subscribed and not disposed, in subscription order.
VsLiveInOrder == SelectSeq(vs_issued, LAMBDA h : h \notin vs_disposed)

\* C16: after one listener that is not the last subscribed has been disposed
\* through remove, fire invokes the remaining listeners in subscription order.
C16_VsRemovalKeepsOrder ==
    (/\ lastVs.op = "fire"
     /\ Cardinality(vs_disposed) = 1
     /\ vs_issued[Len(vs_issued)] \notin vs_disposed) =>
        lastVs.invoked =
            [i \in 1..Len(VsLiveInOrder) |-> [id |-> VsLiveInOrder[i], event |-> lastVs.event]]

\* ------------------------------------------------- reentrant subscription
\* C13: when a listener invoked by fire calls `on`, nothing faults, fire
\* completes, and the new listener is registered under a fresh handle after
\* all earlier listeners, without a further hook call.
C13_ReentrantSubscribeSafe ==
    [][(lastOp'.op = "fire" /\ lastOp'.resub) =>
          /\ fault' = "none"
          /\ lastOp'.completed
          /\ Len(listeners') > Len(listeners)
          /\ SubSeq(listeners', 1, Len(listeners)) = listeners
          /\ \A i \in (Len(listeners) + 1)..Len(listeners') :
                listeners'[i].id >= next_id
          /\ hook_calls' = hook_calls]_vars

\* ------------------------------------------------------ reentrant handlers
\* C14: when the handler execute_command(n) is running disposes its own
\* registration or registers n again, the entry being executed is not
\* destroyed under it, the dispatch does not fault, and the table afterwards
\* has n unmapped, or mapped to the new handler.
C14_HandlerMayMutateTable ==
    [][(lastCmd'.op = "execute_command" /\ lastCmd'.reentrant # "plain") =>
          /\ ~lastCmd'.destroyed
          /\ fault' = "none"
          /\ lastCmd'.reentrant = "dispose_self" => Mapped(HANDLERS', lastCmd'.name) = {}
          /\ lastCmd'.reentrant = "reregister" =>
                Mapped(HANDLERS', lastCmd'.name) = {Len(unregister')}]_vars


\* ------------------------------------------------------------- Disposables
\* The listener handles and the command callbacks whose disposers are in ds.
PushedListeners(ds) == {ds[i].ref : i \in {j \in 1..Len(ds) : ds[j].kind = "listener"}}

PushedHandlers(ds) == {ds[i].ref : i \in {j \in 1..Len(ds) : ds[j].kind = "command"}}

\* A step of Disposables::dispose (one on an empty collection that changes
\* nothing is a stuttering step).
DisposeStep == lastDisp'.op = "dispose" /\ lastDisp' # lastDisp

\* C17: Disposables::dispose calls every disposer pushed since the last
\* dispose exactly once, in push order, and leaves the collection empty, so
\* that a dispose right after it calls nothing.  With every listener's
\* disposer in the collection, after dispose no command callback whose
\* disposer was pushed is called by execute_command for any name, no listener
\* whose disposer was pushed is called by fire, and unhook has been called as
\* many times as hook.
C17_DisposeDrainsInPushOrder ==
    [][DisposeStep =>
          /\ lastDisp'.pending = disposables
          /\ lastDisp'.called = disposables
          /\ disposables' = <<>>
          /\ dispose(disposables', listeners', HANDLERS').called = <<>>
          /\ \A command \in HostCommandNames :
                \A i \in 1..Len(execute_command(HANDLERS', command)) :
                    execute_command(HANDLERS', command)[i] \notin PushedHandlers(disposables)
          /\ \A e \in Events :
                LET r == fire([next_id |-> next_id', listeners |-> listeners'], e)
                IN  \A i \in 1..Len(r.invoked) :
                        r.invoked[i].id \notin PushedListeners(disposables)
          /\ unhook_calls' = hook_calls']_vars

\* C17 witness: a dispose has just called three disposers, of both kinds,
\* while a command whose disposer was dropped stays registered, and the one
\* hook call is matched by one unhook call.
C17_Witness ==
    /\ lastDisp.op = "dispose"
    /\ Len(lastDisp.called) >= 3
    /\ PushedListeners(lastDisp.called) # {}
    /\ PushedHandlers(lastDisp.called) # {}
    /\ disposables = <<>>
    /\ hook_calls = 1
    /\ unhook_calls = 1
    /\ HANDLERS # {}

\* -------------------------------------------------------------- EngineImpl
\* a op b has a u32 value: no overflow, no negative result, no zero divisor.
Representable(operation, a, b) ==
    /\ ~(operation = "Div" /\ b = u32(0, 0))
    /\ ~Arith(operation, a, b).overflow

\* The u32 value of a op b, when it has one.
Value(operation, a, b) == Arith(operation, a, b).value

\* The same in the integers, for operands small enough to be computed there.
InIntegers(v) == v.hi = 0 /\ v.lo < 2 ^ (LimbBits - 1)

IntegerValue(operation, a, b) ==
    CASE operation = "Add" -> a.lo + b.lo
      [] operation = "Sub" -> a.lo - b.lo
      [] operation = "Mul" -> a.lo * b.lo
      [] operation = "Div" -> a.lo \div b.lo

AgreesWithIntegers(operation, a, b, v) ==
    (InIntegers(a) /\ InIntegers(b)) => v = u32_from(IntegerValue(operation, a, b))

\* The calls made so far are a; b; op on a fresh engine.
OneOperation ==
    /\ Len(pushed) = 3
    /\ pushed[1].kind = "operand"
    /\ pushed[2].kind = "operand"
    /\ pushed[3].kind = "operation"
    /\ Representable(pushed[3].value, pushed[1].value, pushed[2].value)

\* The calls made so far are a; b; op; c; op2 on a fresh engine.
TwoOperations ==
    /\ Len(pushed) = 5
    /\ pushed[1].kind = "operand"
    /\ pushed[2].kind = "operand"
    /\ pushed[3].kind = "operation"
    /\ pushed[4].kind = "operand"
    /\ pushed[5].kind = "operation"
    /\ Representable(pushed[3].value, pushed[1].value, pushed[2].value)
    /\ Representable(pushed[5].value,
                     Value(pushed[3].value, pushed[1].value, pushed[2].value),
                     pushed[4].value)

C18_State ==
    /\ OneOperation =>
          LET v == Value(pushed[3].value, pushed[1].value, pushed[2].value)
          IN  /\ fault = "none"
              /\ left = Some(v)
              /\ AgreesWithIntegers(pushed[3].value, pushed[1].value, pushed[2].value, v)
              /\ lastCalc.op = "execute" => lastCalc.returned = Some(v)
    /\ TwoOperations =>
          LET v == Value(pushed[3].value, pushed[1].value, pushed[2].value)
              w == Value(pushed[5].value, v, pushed[4].value)
          IN  /\ fault = "none"
              /\ left = Some(w)
              /\ AgreesWithIntegers(pushed[5].value, v, pushed[4].value, w)
              /\ lastCalc.op = "execute" => lastCalc.returned = Some(w)

C18_Step ==
    (lastCalc'.op = "execute" /\ fault' = "none") =>
        /\ left' = left
        /\ right' = right
        /\ lastCalc'.returned = left
        /\ execute(left') = execute(left)

\* C18: on a fresh engine, push_operand(a); push_operand(b);
\* push_operation(op) with a op b representable (no overflow, no negative
\* result, b # 0 for Div) makes execute return a op b; execute leaves left
\* and right as they are, so that repeating it returns the same value; and a
\* following push_operand(c); push_operation(op2), with (a op b) op2 c
\* representable, makes execute return (a op b) op2 c.
C18_ReverseNotation == []C18_State /\ [][C18_Step]_vars

\* C18 witness: after 3; 2; Sub; 3; Mul, execute has returned (3 - 2) * 3.
C18_Witness ==
    /\ TwoOperations
    /\ pushed[1].value = u32_from(3)
    /\ pushed[2].value = u32_from(2)
    /\ pushed[3].value = "Sub"
    /\ pushed[4].value = u32_from(3)
    /\ pushed[5].value = "Mul"
    /\ lastCalc.op = "execute"
    /\ lastCalc.returned = Some(u32_from(3))
    /\ fault = "none"

====
